---- MODULE Spec2Model ----
(***************************************************************************)
(* Model of the training harness of 6-pic-vote-mobilenet:                  *)
(*   src/main.py               main: load, then vote_eval or fit           *)
(*   src/models/BasicModule.py MyThread.run, BasicModule.load / save /     *)
(*                             mt_save / validate / vote_eval / fit        *)
(* One process (a "run") has a main thread and the MyThread save tasks it  *)
(* starts; the checkpoint directory outlives the process, so a run can be  *)
(* followed by another run that loads what the earlier one saved.          *)
(* Losses and confidences are floats in the code; the model draws them     *)
(* from small sets of integers on which the code's divisions are exact.    *)
(***************************************************************************)
EXTENDS Integers, Sequences, FiniteSets, TLC

\* ---------------------------------------------------------------- bounds
MaxRuns == 2          \* processes run one after the other on the same disk
MaxLoss == 2          \* distinct loss values an epoch can evaluate to
NUM_EPOCHS == 2       \* opt.NUM_EPOCHS
NUM_BATCHES == 1      \* len(train_loader)
NUM_VOTE_BATCHES == 2 \* len(eval_loader) in vote_eval
NUM_VIEWS == 3        \* views (rows) of one vote_eval batch
NUM_CLASSES == 2      \* classes a view can be predicted as
NUM_ROWS == 2         \* rows of outputs validate judges

\* ------------------------------------------------------ program constants
SENTINEL == 100000000 \* self.best_loss = 1e8
NUM_EVAL == 2         \* opt.NUM_EVAL
THREADHOLD == 1       \* opt.THREADHOLD

Slots == {"temp", "best"}
SaveEverys == {1, 2}  \* the values opt.SAVE_EVERY is drawn from
NoFile == [exists |-> FALSE]

VARIABLES
  opt,          \* the Config object of this process
  dir_exists,   \* NET_SAVE_PATH + MODEL + '_' + PROCESS_ID + '/' exists
  files,        \* files[slot]: content of temp_model.dat / best_model.dat
  best_loss,    \* net.best_loss
  pre_epoch,    \* net.pre_epoch
  params,       \* net.state_dict(): number of optimizer steps it went through
  threads,      \* net.threads: the MyThread objects, in submission order
  lock,         \* the module-level lock: 0 free, k held by threads[k]
  pc,           \* position of the main thread
  epoch,        \* fit: the loop variable
  batch,        \* fit: batches of this epoch already trained
  eval_loss,    \* fit: eval_loss returned by validate
  reported,     \* fit: the logical epoch last printed (0: none yet)
  load_status,  \* what load printed: "none", "found", "notfound"
  run,          \* number of this process, 1..MaxRuns
  vote_i,       \* vote_eval: batches already evaluated
  views,        \* vote_eval: the batch's per-view <<top-1 class, top-1 value>>
  label,        \* vote_eval: labels[0] of the batch
  vote_res,     \* vote_eval: res, 0 before the first batch
  eval_acc,     \* vote_eval: eval_acc
  saved,        \* history: per slot, the arguments of the save that made it
  eval_rows,    \* validate: the rows <<scores, label>> of outputs and labels
  hits          \* validate: eval_acc counted under each opt.TOP_NUM, -1 not yet

vars == <<opt, dir_exists, files, best_loss, pre_epoch, params, threads, lock,
          pc, epoch, batch, eval_loss, reported,
          load_status, run, vote_i, views, label, vote_res,
          eval_acc, saved, eval_rows, hits>>

fsVars == <<dir_exists, files, saved>>
fitVars == <<epoch, batch, eval_loss, reported>>
voteVars == <<vote_i, views, label, vote_res, eval_acc>>
loadVars == <<load_status>>
evalVars == <<eval_rows, hits>>

Min(S) == CHOOSE x \in S : \A y \in S : x <= y

\* ------------------------------------------------------------- Config
Configs(mass) ==
  [SAVE_TEMP_MODEL : BOOLEAN, SAVE_BEST_MODEL : BOOLEAN,
   LOAD_SAVED_MOD : BOOLEAN, SAVE_EVERY : SaveEverys,
   MASS_TESTING : {mass}]

\* ------------------------------------------------- BasicModule.__init__
\* The in-memory state of a freshly constructed net.
NewProcess(o) ==
  /\ opt = o
  /\ best_loss = SENTINEL
  /\ pre_epoch = 0
  /\ params = 0
  /\ threads = <<>>
  /\ lock = 0
  /\ pc = "start"
  /\ epoch = 0 /\ batch = 0 /\ eval_loss = 0 /\ reported = 0
  /\ load_status = "none"
  /\ vote_i = 0 /\ views = <<>> /\ label = 0 /\ vote_res = 0 /\ eval_acc = 0

InitDisk ==
  /\ dir_exists = FALSE
  /\ files = [s \in Slots |-> NoFile]
  /\ saved = [s \in Slots |-> NoFile]

\* No evaluation under a chosen TOP_NUM is part of main.
NoEval == eval_rows = <<>> /\ hits = <<>>

Init ==
  /\ run = 1
  /\ InitDisk
  /\ NoEval
  /\ \E o \in Configs(FALSE) : NewProcess(o)


\* ------------------------------------------------------ BasicModule.load
\* Mutant of LoadedState: line 89 forgotten, best_loss keeps its value.
LoadedStateKeepsBest(f) ==
  [pre_epoch |-> f.epoch, best_loss |-> best_loss, params |-> f.state_dict]

\* What load takes from a checkpoint that exists (lines 87-90).
LoadedState(f) ==
  [pre_epoch |-> f.epoch, best_loss |-> f.best_loss, params |-> f.state_dict]

\* os.path.exists(temp_model_name), line 86.
LoadFound(slot) == files[slot] # NoFile

\* Mutant of Load: lines 84-85 forgotten, the directory is not created.
LoadNoMkdir(slot) ==
  /\ UNCHANGED dir_exists
  /\ IF files[slot] # NoFile
       THEN /\ pre_epoch' = files[slot].epoch
            /\ best_loss' = files[slot].best_loss
            /\ params' = files[slot].state_dict
            /\ load_status' = "found"
       ELSE /\ UNCHANGED <<pre_epoch, best_loss, params>>
            /\ load_status' = "notfound"
  /\ UNCHANGED <<files, saved>>

Load(slot) ==
  /\ dir_exists' = TRUE                      \* lines 84-85: mkdir when absent
  /\ IF LoadFound(slot)
       THEN /\ pre_epoch' = LoadedState(files[slot]).pre_epoch
            /\ best_loss' = LoadedState(files[slot]).best_loss
            /\ params' = LoadedState(files[slot]).params
            /\ load_status' = "found"
       ELSE /\ UNCHANGED <<pre_epoch, best_loss, params>>
            /\ load_status' = "notfound"
  /\ UNCHANGED <<files, saved>>

\* main.py lines 39-40: if opt.LOAD_SAVED_MOD: net.load(), with the default
\* model_type "temp_model.dat".
MainStart ==
  /\ pc = "start"
  /\ pc' = "loaded"
  /\ IF opt.LOAD_SAVED_MOD
       THEN Load("temp")
       ELSE UNCHANGED <<fsVars, loadVars, pre_epoch, best_loss, params>>
  /\ UNCHANGED <<evalVars, opt, threads, lock, fitVars, run, voteVars>>

\* main.py lines 46-52: vote_eval when opt.MASS_TESTING, fit otherwise.
MainDispatch ==
  /\ pc = "loaded"
  /\ pc' = IF opt.MASS_TESTING THEN "vote" ELSE "train"
  /\ UNCHANGED <<evalVars, opt, fsVars, best_loss, pre_epoch, params, threads, lock,
                 fitVars, loadVars, run, voteVars>>

\* ---------------------------------------------------- BasicModule.validate
\* The summed batch losses an evaluation can come to: multiples of NUM_EVAL^2,
\* so that both divisions by NUM_EVAL are exact as they are on floats.
EvalSums == {NUM_EVAL * NUM_EVAL * k : k \in 1..MaxLoss}

\* return eval_loss / self.opt.NUM_EVAL, line 209.
Validate(sum) == sum \div NUM_EVAL

\* The rows of outputs: a score per class, no two equal.
ScoreRows ==
  {f \in [1..NUM_CLASSES -> 1..NUM_CLASSES] :
     \A c, d \in 1..NUM_CLASSES : c # d => f[c] # f[d]}

\* outputs.sort(descending=True)[1], line 205: the classes by falling score.
SortDesc(f) ==
  CHOOSE r \in [1..NUM_CLASSES -> 1..NUM_CLASSES] :
    \A i, j \in 1..NUM_CLASSES : i < j => f[r[i]] > f[r[j]]

\* Mutant of TopK: the slice [:, TOP_NUM - 1:TOP_NUM], the K-th class alone.
TopKLastOnly(f, K) == {SortDesc(f)[Min({K, NUM_CLASSES})]}

\* [:, :self.opt.TOP_NUM], line 205: the first K classes, all of them when K
\* is more than there are.
TopK(f, K) == {SortDesc(f)[i] : i \in 1..Min({K, NUM_CLASSES})}

\* Lines 206-208: eval_acc += 1 for every row whose label is in its predict.
EvalAcc(rows, K) ==
  Cardinality({i \in 1..Len(rows) : rows[i][2] \in TopK(rows[i][1], K)})

\* The values of opt.TOP_NUM validate is run under.
TopNums == 1..(NUM_CLASSES + 1)

\* validate on the fixed outputs and labels with opt.TOP_NUM = K.
ValidateTopK(K) ==
  /\ hits' = [hits EXCEPT ![K] = EvalAcc(eval_rows, K)]
  /\ UNCHANGED <<eval_rows, opt, fsVars, best_loss, pre_epoch, params, threads,
                 lock, pc, fitVars, loadVars, run, voteVars>>

\* ---------------------------------------------------------- MyThread
\* MyThread.__init__ (lines 26-32) and start(): the thread is about to acquire.
\* self.net is a reference to the model, not a copy; at_submit is history, the
\* parameters the model had when the thread was made.
NewThread(e, bs_old, loss) ==
  [epoch |-> e, bs_old |-> bs_old, loss |-> loss, pc |-> "acquire",
   copied |-> FALSE, exc |-> FALSE, at_submit |-> params]

\* Positions between lock.acquire() and lock.release().
CSLabels == {"save_cmp", "save_set", "save_write", "promote", "copy",
             "release"}

InCS(k) == threads[k].pc \in CSLabels
Alive(k) == threads[k].pc # "done"

\* lock.acquire() returns only when the lock is free, line 35.
LockFree == lock = 0

\* Mutant of Acquire: run enters its try block without lock.acquire().
AcquireForgotten(k) ==
  /\ threads[k].pc = "acquire"
  /\ UNCHANGED lock
  /\ threads' = [threads EXCEPT ![k].pc =
        IF opt.SAVE_TEMP_MODEL THEN "save_cmp" ELSE "promote"]
  /\ UNCHANGED <<evalVars, opt, fsVars, best_loss, pre_epoch, params, pc, fitVars,
                 loadVars, run, voteVars>>

Acquire(k) ==
  /\ threads[k].pc = "acquire"
  /\ LockFree
  /\ lock' = k
  /\ threads' = [threads EXCEPT ![k].pc =
        IF opt.SAVE_TEMP_MODEL THEN "save_cmp" ELSE "promote"]  \* line 37
  /\ UNCHANGED <<evalVars, opt, fsVars, best_loss, pre_epoch, params, pc, fitVars,
                 loadVars, run, voteVars>>

\* save: if loss < self.best_loss, line 105.
SaveCond(t) == t.loss < best_loss

SaveCmp(k) ==
  /\ threads[k].pc = "save_cmp"
  /\ threads' = [threads EXCEPT ![k].pc =
        IF SaveCond(threads[k]) THEN "save_set" ELSE "save_write"]
  /\ UNCHANGED <<evalVars, opt, fsVars, best_loss, pre_epoch, params, lock, pc, fitVars,
                 loadVars, run, voteVars>>

\* save: self.best_loss = loss, line 106.
SaveSet(k) ==
  /\ threads[k].pc = "save_set"
  /\ best_loss' = threads[k].loss
  /\ threads' = [threads EXCEPT ![k].pc = "save_write"]
  /\ UNCHANGED <<evalVars, opt, fsVars, pre_epoch, params, lock, pc, fitVars,
                 loadVars, run, voteVars>>

\* The record torch.save writes, lines 122-126.
Checkpoint(e) ==
  [exists |-> TRUE, epoch |-> e + 1, state_dict |-> params,
   best_loss |-> best_loss]

\* save lines 107-126: mkdir when absent, then torch.save of the parameters
\* and the best_loss of that moment.
SaveWrite(k) ==
  /\ threads[k].pc = "save_write"
  /\ dir_exists' = TRUE
  /\ files' = [files EXCEPT !["temp"] = Checkpoint(threads[k].epoch)]
  /\ saved' = [saved EXCEPT !["temp"] =
        [exists |-> TRUE, epoch |-> threads[k].epoch,
         best_loss |-> best_loss, state_dict |-> params]]
  /\ threads' = [threads EXCEPT ![k].pc = "promote"]
  /\ UNCHANGED <<evalVars, opt, best_loss, pre_epoch, params, lock, pc, fitVars,
                 loadVars, run, voteVars>>

\* Mutant of PromoteCond: <= in place of <.
PromoteCondOnEqual(t) == opt.SAVE_BEST_MODEL /\ t.loss <= t.bs_old

\* run: if self.opt.SAVE_BEST_MODEL and self.loss < self.bs_old, line 39.
PromoteCond(t) == opt.SAVE_BEST_MODEL /\ t.loss < t.bs_old

\* run lines 39-40: the test reads the thread's own fields only, so it is one
\* step with self.net.best_loss = self.loss.
Promote(k) ==
  /\ threads[k].pc = "promote"
  /\ IF PromoteCond(threads[k])
       THEN /\ best_loss' = threads[k].loss
            /\ threads' = [threads EXCEPT ![k].pc = "copy"]
       ELSE /\ UNCHANGED best_loss
            /\ threads' = [threads EXCEPT ![k].pc = "release"]
  /\ UNCHANGED <<evalVars, opt, fsVars, pre_epoch, params, lock, pc, fitVars,
                 loadVars, run, voteVars>>

\* Mutant of Copy: no finally, the exception ends the thread with the lock
\* held.
CopyWithoutFinally(k) ==
  /\ threads[k].pc = "copy"
  /\ IF files["temp"] # NoFile
       THEN /\ files' = [files EXCEPT !["best"] = files["temp"]]
            /\ saved' = [saved EXCEPT !["best"] = saved["temp"]]
            /\ threads' = [threads EXCEPT ![k].pc = "release",
                                          ![k].copied = TRUE]
       ELSE /\ UNCHANGED <<files, saved>>
            /\ threads' = [threads EXCEPT ![k].pc = "done", ![k].exc = TRUE]
  /\ UNCHANGED <<evalVars, opt, dir_exists, best_loss, pre_epoch, params, lock, pc,
                 fitVars, loadVars, run, voteVars>>

\* shutil.copy finds its source, line 44.
CopySource == files["temp"] # NoFile

\* run: shutil.copy(temp_model_name, best_model_name), lines 41-44; it raises
\* FileNotFoundError when temp_model.dat is absent.
Copy(k) ==
  /\ threads[k].pc = "copy"
  /\ IF CopySource
       THEN /\ files' = [files EXCEPT !["best"] = files["temp"]]
            /\ saved' = [saved EXCEPT !["best"] = saved["temp"]]
            /\ threads' = [threads EXCEPT ![k].pc = "release",
                                          ![k].copied = TRUE]
       ELSE /\ UNCHANGED <<files, saved>>
            /\ threads' = [threads EXCEPT ![k].pc = "release", ![k].exc = TRUE]
  /\ UNCHANGED <<evalVars, opt, dir_exists, best_loss, pre_epoch, params, lock, pc,
                 fitVars, loadVars, run, voteVars>>

\* run: finally: lock.release(), lines 45-46; the thread then ends.
Release(k) ==
  /\ threads[k].pc = "release"
  /\ lock' = 0
  /\ threads' = [threads EXCEPT ![k].pc = "done"]
  /\ UNCHANGED <<evalVars, opt, fsVars, best_loss, pre_epoch, params, pc, fitVars,
                 loadVars, run, voteVars>>


\* ------------------------------------------------------- BasicModule.fit
\* Mutant of LogicalEpoch: the epoch counted from zero.
LogicalEpochFromZero == pre_epoch + epoch

\* The logical epoch fit prints, line 306: self.pre_epoch + epoch + 1.
LogicalEpoch == pre_epoch + epoch + 1

\* Mutant of NextEpoch: the loop runs one epoch more than NUM_EPOCHS.
NextEpochOneMore ==
  /\ epoch' = epoch + 1
  /\ batch' = 0
  /\ eval_loss' = 0
  /\ pc' = IF epoch + 1 <= NUM_EPOCHS THEN "train" ELSE "finished"

\* End of the loop body: the next epoch, or '==> Training Finished.' The
\* iteration's eval_loss is dead: line 296 binds it anew before it is read.
NextEpoch ==
  /\ epoch' = epoch + 1
  /\ batch' = 0
  /\ eval_loss' = 0
  /\ pc' = IF epoch + 1 < NUM_EPOCHS THEN "train" ELSE "finished"

\* One batch of the training loop, lines 273-290: optimizer.step() changes
\* the parameters in place.
FitTrainBatch ==
  /\ pc = "train"
  /\ batch < NUM_BATCHES
  /\ batch' = batch + 1
  /\ params' = params + 1
  /\ UNCHANGED <<evalVars, opt, fsVars, best_loss, pre_epoch, threads, lock, pc, epoch,
                 eval_loss, reported, loadVars, run, voteVars>>

\* Lines 296-307: eval_loss, eval_acc = self.validate(eval_loader), then the
\* summary and the printed line with the logical epoch.
FitValidate ==
  /\ pc = "train"
  /\ batch = NUM_BATCHES
  /\ \E sum \in EvalSums : eval_loss' = Validate(sum)
  /\ reported' = LogicalEpoch
  /\ pc' = "checkpoint"
  /\ UNCHANGED <<evalVars, opt, fsVars, best_loss, pre_epoch, params, threads, lock,
                 epoch, batch, loadVars, run, voteVars>>

\* Mutant of SaveDue: the interval counted from the first epoch's end.
SaveDueAtIntervalEnd == (epoch + 1) % opt.SAVE_EVERY = 0

\* if epoch % self.opt.SAVE_EVERY == 0, line 310.
SaveDue == epoch % opt.SAVE_EVERY = 0

\* The arguments of the mt_save call, line 311.
MtSaveEpoch == pre_epoch + epoch + 1
MtSaveLoss == eval_loss \div NUM_EVAL

\* Line 310 when no save is due.
FitSkipSave ==
  /\ pc = "checkpoint"
  /\ ~SaveDue
  /\ NextEpoch
  /\ UNCHANGED <<evalVars, opt, fsVars, best_loss, pre_epoch, params, threads, lock,
                 reported, loadVars, run, voteVars>>

\* ---------------------------------------------------- BasicModule.mt_save
\* Mutant of JoinDone: mt_save does not join the last thread.
JoinSkipped == TRUE

\* self.threads[-1].join() has returned, lines 140-141.
JoinDone ==
  IF Len(threads) > 0 THEN threads[Len(threads)].pc = "done" ELSE TRUE

\* Lines 310-311 and mt_save lines 138-143: the call when a save is due, the
\* join of the last thread, then the new thread is created and started.
MtSaveStart ==
  /\ pc = "checkpoint"
  /\ SaveDue
  /\ JoinDone
  /\ threads' = Append(threads, NewThread(MtSaveEpoch, best_loss, MtSaveLoss))
  /\ pc' = "mt_cmp"
  /\ UNCHANGED <<evalVars, opt, fsVars, best_loss, pre_epoch, params, lock, fitVars,
                 loadVars, run, voteVars>>

\* Mutant of RenewCond: the comparison with best_loss dropped.
RenewAlways == opt.SAVE_BEST_MODEL

\* if self.opt.SAVE_BEST_MODEL and loss < self.best_loss, line 144.
RenewCond == opt.SAVE_BEST_MODEL /\ MtSaveLoss < best_loss

MtSaveCmp ==
  /\ pc = "mt_cmp"
  /\ IF RenewCond
       THEN pc' = "mt_set" /\ UNCHANGED <<epoch, batch, eval_loss>>
       ELSE NextEpoch
  /\ UNCHANGED <<evalVars, opt, fsVars, best_loss, pre_epoch, params, threads, lock,
                 reported, loadVars, run, voteVars>>

\* self.best_loss = loss, line 146, and the return to fit.
MtSaveSet ==
  /\ pc = "mt_set"
  /\ best_loss' = MtSaveLoss
  /\ NextEpoch
  /\ UNCHANGED <<evalVars, opt, fsVars, pre_epoch, params, threads, lock, reported,
                 loadVars, run, voteVars>>

\* ------------------------------------------------- BasicModule.vote_eval
Classes == 1..NUM_CLASSES
\* Top-1 values below, at and above the threshold.
Confs == (THREADHOLD - 1)..(THREADHOLD + 1)

\* Mutant of ValidVoters: > in place of >=.
ValidVotersStrict(v) == {i \in 1..Len(v) : v[i][2] > THREADHOLD}

\* np.where(pred_vals >= self.opt.THREADHOLD), line 246.
ValidVoters(v) == {i \in 1..Len(v) : v[i][2] >= THREADHOLD}

\* Occurrences of class c among the valid votes.
Votes(v, c) == Cardinality({i \in ValidVoters(v) : v[i][1] = c})

\* mode(valid_votes)[0][0], line 248: the smallest of the most frequent values.
Mode(v) ==
  Min({c \in Classes : /\ Votes(v, c) > 0
                       /\ \A d \in Classes : Votes(v, d) <= Votes(v, c)})

\* One batch of vote_eval, lines 235-252. With no valid voter mode() returns
\* empty arrays and [0][0] raises IndexError.
VoteBatch ==
  /\ pc = "vote"
  /\ vote_i < NUM_VOTE_BATCHES
  /\ \E v \in [1..NUM_VIEWS -> Classes \X Confs], l \in Classes :
       /\ views' = v
       /\ label' = l
       /\ IF ValidVoters(v) = {}
            THEN /\ pc' = "crashed"
                 /\ UNCHANGED <<vote_res, eval_acc>>
            ELSE /\ vote_res' = Mode(v)
                 /\ eval_acc' = IF l = Mode(v) THEN eval_acc + 1 ELSE eval_acc
                 /\ pc' = "vote_judged"
  /\ UNCHANGED <<evalVars, opt, fsVars, best_loss, pre_epoch, params, threads, lock,
                 fitVars, loadVars, run, vote_i>>

\* Back to the head of the loop, line 235: the batch's locals are dead.
VoteLoop ==
  /\ pc = "vote_judged"
  /\ pc' = "vote"
  /\ vote_i' = vote_i + 1
  /\ views' = <<>> /\ label' = 0 /\ vote_res' = 0
  /\ UNCHANGED <<evalVars, opt, fsVars, best_loss, pre_epoch, params, threads, lock,
                 fitVars, loadVars, run, eval_acc>>

\* return eval_loss / NUM_EVAL, eval_acc / NUM_EVAL, line 254.
VoteReturn ==
  /\ pc = "vote"
  /\ vote_i = NUM_VOTE_BATCHES
  /\ pc' = "finished"
  /\ UNCHANGED <<evalVars, opt, fsVars, best_loss, pre_epoch, params, threads, lock,
                 fitVars, loadVars, run, voteVars>>

\* ------------------------------------------------------------ the process
\* The process ends when main has returned and every MyThread has ended (the
\* threads are not daemons); the next process starts from a fresh net and a
\* Config of its own, on the disk the earlier ones left.
Restart ==
  /\ pc = "finished"
  /\ \A k \in 1..Len(threads) : ~Alive(k)
  /\ run < MaxRuns
  /\ run' = run + 1
  /\ opt' \in Configs(opt.MASS_TESTING)
  /\ best_loss' = SENTINEL
  /\ pre_epoch' = 0
  /\ params' = 0
  /\ threads' = <<>>
  /\ lock' = 0
  /\ pc' = "start"
  /\ epoch' = 0 /\ batch' = 0 /\ eval_loss' = 0 /\ reported' = 0
  /\ load_status' = "none"
  /\ UNCHANGED <<fsVars, voteVars, evalVars>>

Next ==
  \/ MainStart
  \/ MainDispatch
  \/ FitTrainBatch
  \/ FitValidate
  \/ FitSkipSave
  \/ MtSaveStart
  \/ MtSaveCmp
  \/ MtSaveSet
  \/ Restart
  \/ \E k \in 1..Len(threads) : Acquire(k)
  \/ \E k \in 1..Len(threads) : SaveCmp(k)
  \/ \E k \in 1..Len(threads) : SaveSet(k)
  \/ \E k \in 1..Len(threads) : SaveWrite(k)
  \/ \E k \in 1..Len(threads) : Promote(k)
  \/ \E k \in 1..Len(threads) : Copy(k)
  \/ \E k \in 1..Len(threads) : Release(k)

Spec == Init /\ [][Next]_vars

\* One process from start to '==> Training Finished.': the steps of the main
\* thread, and the steps of MyThread k.
MainNext ==
  \/ MainStart
  \/ MainDispatch
  \/ FitTrainBatch
  \/ FitValidate
  \/ FitSkipSave
  \/ MtSaveStart
  \/ MtSaveCmp
  \/ MtSaveSet

ThreadNext(k) ==
  \/ Acquire(k)
  \/ SaveCmp(k)
  \/ SaveSet(k)
  \/ SaveWrite(k)
  \/ Promote(k)
  \/ Copy(k)
  \/ Release(k)

LiveNext ==
  \/ MainNext
  \/ \E k \in 1..Len(threads) : Acquire(k)
  \/ \E k \in 1..Len(threads) : SaveCmp(k)
  \/ \E k \in 1..Len(threads) : SaveSet(k)
  \/ \E k \in 1..Len(threads) : SaveWrite(k)
  \/ \E k \in 1..Len(threads) : Promote(k)
  \/ \E k \in 1..Len(threads) : Copy(k)
  \/ \E k \in 1..Len(threads) : Release(k)

\* The interpreter schedules every thread that can run: the main thread and
\* each MyThread keep taking their steps while they have one.
LiveSpec ==
  /\ Init
  /\ [][LiveNext]_vars
  /\ WF_vars(MainNext)
  /\ \A k \in 1..NUM_EPOCHS : WF_vars(k <= Len(threads) /\ ThreadNext(k))

\* main with opt.MASS_TESTING set: load, then vote_eval, which reads neither
\* the save flags nor SAVE_EVERY.
VoteInit ==
  /\ run = 1
  /\ InitDisk
  /\ NoEval
  /\ \E o \in Configs(TRUE) :
       /\ o.SAVE_TEMP_MODEL /\ o.SAVE_BEST_MODEL /\ o.SAVE_EVERY = 1
       /\ NewProcess(o)

VoteNext ==
  \/ MainStart
  \/ MainDispatch
  \/ VoteBatch
  \/ VoteLoop
  \/ VoteReturn

VoteSpec == VoteInit /\ [][VoteNext]_vars


\* validate alone, on outputs and labels fixed at the start, under each TOP_NUM.
TopKInit ==
  /\ run = 1
  /\ InitDisk
  /\ eval_rows \in [1..NUM_ROWS -> ScoreRows \X (1..NUM_CLASSES)]
  /\ hits = [K \in TopNums |-> -1]
  /\ \E o \in Configs(FALSE) :
       /\ o.SAVE_TEMP_MODEL /\ o.SAVE_BEST_MODEL /\ o.SAVE_EVERY = 1
       /\ ~o.LOAD_SAVED_MOD
       /\ NewProcess(o)

TopKNext == \E K \in TopNums : ValidateTopK(K)

TopKSpec == TopKInit /\ [][TopKNext]_vars

\* ======================================================== the claims
ThreadIds == 1..Len(threads)

\* C1: at most one SaveTask is inside its critical section at any instant, and
\* the task inside it is the holder of the process-wide lock.
MutualExclusion ==
  /\ Cardinality({k \in ThreadIds : InCS(k)}) <= 1
  /\ \A k \in ThreadIds : InCS(k) => lock = k

\* C1 witness: the second submission of a run is inside its critical section.
MutualExclusionWitness ==
  Len(threads) >= 2 /\ threads[2].pc = "save_write" /\ lock = 2

\* C2: SaveTasks run in submission order and never overlap: a thread that is
\* alive is the last one submitted, every earlier one has terminated.
SubmissionOrder ==
  \A k \in ThreadIds : Alive(k) => \A j \in 1..(k - 1) : ~Alive(j)

\* C2 witness: a second task is running after the first has terminated.
SubmissionOrderWitness ==
  Len(threads) >= 2 /\ InCS(2) /\ ~Alive(1)

\* C3, as stated: after save with epoch e, best_loss b and parameters P, load
\* of the slot gives pre_epoch = e, best_loss = b and parameters P.
RoundTripIdentity ==
  (pc = "loaded" /\ load_status = "found") =>
     /\ pre_epoch = saved["temp"].epoch
     /\ best_loss = saved["temp"].best_loss
     /\ params = saved["temp"].state_dict

\* C3, amended: after save with epoch e, load of the slot gives
\* pre_epoch = e + 1, the best_loss save wrote and the parameters save wrote.
RoundTripNextEpoch ==
  (pc = "loaded" /\ load_status = "found") =>
     /\ pre_epoch = saved["temp"].epoch + 1
     /\ best_loss = saved["temp"].best_loss
     /\ params = saved["temp"].state_dict

\* C3 witness: a process has loaded a checkpoint of a trained net.
RoundTripWitness ==
  /\ pc = "loaded" /\ load_status = "found"
  /\ best_loss < SENTINEL /\ params > 0 /\ pre_epoch > 0

\* C4: a run resumed from the checkpoint made at logical epoch L reports L + 1
\* as its first epoch.
ResumeContinuesTimeline ==
  (pc = "checkpoint" /\ epoch = 0 /\ load_status = "found") =>
     reported = saved["temp"].epoch + 1

\* C5: a task copies Temp to Best only when its loss is strictly less than the
\* best loss recorded before it (the best_loss at its submission, hence every
\* earlier loss of the run), and right after the copy Best equals Temp.
PromotionStrict ==
  \A k \in ThreadIds :
    (threads[k].pc = "release" /\ threads[k].copied) =>
       /\ threads[k].loss < threads[k].bs_old
       /\ \A j \in 1..(k - 1) : threads[k].loss < threads[j].loss
       /\ files["best"] = files["temp"]
       /\ files["best"] # NoFile

\* C5 witness: the second task of a run has just promoted its checkpoint.
PromotionStrictWitness ==
  /\ Len(threads) >= 2
  /\ threads[2].pc = "release" /\ threads[2].copied

\* C6: whenever a task for epoch e copies Temp to Best, Temp is the checkpoint
\* that task's own save wrote for epoch e, whatever the flags.
PromotionOfOwnCheckpoint ==
  \A k \in ThreadIds :
    (threads[k].pc = "release" /\ threads[k].copied) =>
       /\ opt.SAVE_TEMP_MODEL
       /\ saved["temp"].epoch = threads[k].epoch

\* C7: within one run, after its initialisation, no step increases best_loss.
BestLossNonIncreasing ==
  [][(pc # "start" /\ pc' # "start") => best_loss' <= best_loss]_vars

\* C7 witness: a task with a worse loss than its predecessor has run to its
\* end, mt_save has returned, and best_loss is still the predecessor's loss.
BestLossNonIncreasingWitness ==
  /\ Len(threads) >= 2 /\ ~Alive(2) /\ pc = "finished"
  /\ threads[2].loss > threads[1].loss
  /\ best_loss = threads[1].loss

\* C8: the main thread reads and writes best_loss in mt_save (lines 144-146)
\* only while no SaveTask is inside its critical section.
BestLossUnderLock ==
  \A k \in ThreadIds : InCS(k) => pc \notin {"mt_cmp", "mt_set"}

\* C9: load creates the directory, never creates a file, reports not-found and
\* leaves pre_epoch, best_loss and the parameters alone when the file is
\* absent, and takes pre_epoch and best_loss from the file when it exists.
LoadAbsentIsNoError ==
  [][(pc = "start" /\ pc' = "loaded" /\ opt.LOAD_SAVED_MOD) =>
       /\ dir_exists'
       /\ files' = files
       /\ IF files["temp"] = NoFile
            THEN /\ load_status' = "notfound"
                 /\ pre_epoch' = pre_epoch
                 /\ best_loss' = best_loss
                 /\ params' = params
            ELSE /\ load_status' = "found"
                 /\ pre_epoch' = files["temp"].epoch
                 /\ best_loss' = files["temp"].best_loss]_vars

\* C9 witness: the first process, started on a disk without the directory, has
\* loaded: the directory is there, no file is, and load reported not-found.
LoadAbsentWitness ==
  /\ run = 1 /\ pc = "loaded" /\ load_status = "notfound"
  /\ dir_exists /\ files["temp"] = NoFile /\ files["best"] = NoFile

\* C10: a batch of vote_eval with no view at or above the threshold is handled
\* and does not end the evaluation in an error.
EmptyVoteHandled ==
  (Len(views) > 0 /\ ValidVoters(views) = {}) => pc # "crashed"

\* C11: for a batch with a view at or above the threshold, the kept views
\* are those whose top-1 value is >= the threshold, the consensus is a class
\* with the most occurrences among the kept views' classes, and eval_acc
\* grows by one iff the label equals the consensus.
VoteIsMajorityOfKept ==
  [][(pc = "vote" /\ pc' = "vote_judged") =>
       LET kept == {i \in 1..NUM_VIEWS : views'[i][2] >= THREADHOLD}
           count(c) == Cardinality({i \in kept : views'[i][1] = c})
       IN  /\ kept # {}
           /\ count(vote_res') > 0
           /\ \A c \in Classes : count(c) <= count(vote_res')
           /\ eval_acc' = eval_acc + (IF label' = vote_res' THEN 1 ELSE 0)]_vars

\* C11 witness: a batch with a view below the threshold and kept views of two
\* classes was judged, and its label matched the consensus.
VoteIsMajorityWitness ==
  /\ pc = "vote_judged" /\ Len(views) = NUM_VIEWS
  /\ \E i \in 1..NUM_VIEWS : views[i][2] < THREADHOLD
  /\ \E i, j \in 1..NUM_VIEWS :
       /\ views[i][2] >= THREADHOLD /\ views[j][2] >= THREADHOLD
       /\ views[i][1] # views[j][1]
  /\ label = vote_res /\ eval_acc >= 1

\* C12: for fixed outputs and labels, the hit count of validate under
\* TOP_NUM = K is at most the one under TOP_NUM = K + 1.
TopKMonotone ==
  \A K \in TopNums :
    (K + 1 \in TopNums /\ hits[K] >= 0 /\ hits[K + 1] >= 0) =>
       hits[K] <= hits[K + 1]

\* C12 witness: validate has counted strictly more hits under K + 1 than
\* under K.
TopKMonotoneWitness ==
  /\ hits # <<>>
  /\ \E K \in TopNums :
       K + 1 \in TopNums /\ hits[K] >= 0 /\ hits[K + 1] > hits[K]

\* C13: with the offset s restored by load in pre_epoch, the epoch reported
\* for in-run index i is s + i + 1, and the epoch handed to mt_save for that
\* index is the same number.
ReportedEpochIsOffsetPlusIndex ==
  /\ pc \in {"checkpoint", "mt_cmp", "mt_set"} =>
       reported = pre_epoch + epoch + 1
  /\ pc \in {"mt_cmp", "mt_set"} =>
       threads[Len(threads)].epoch = pre_epoch + epoch + 1

\* C13 witness: a run that load gave a positive offset has reported its first
\* epoch and handed it to mt_save.
ReportedEpochWitness ==
  /\ pc = "mt_cmp"
  /\ load_status = "found"
  /\ pre_epoch > 0
  /\ epoch = 0
  /\ reported = pre_epoch + 1
  /\ threads[Len(threads)].epoch = pre_epoch + 1

\* C14: the parameters a SaveTask writes to Temp are the model's parameters
\* as they were when the task was submitted, whatever the main thread has
\* trained since.
TempBlobIsSubmissionState ==
  \A k \in ThreadIds :
    (opt.SAVE_TEMP_MODEL /\ threads[k].pc = "promote") =>
       files["temp"].state_dict = threads[k].at_submit

\* C15: a storage failure inside a SaveTask halts the run: no SaveTask is
\* submitted after one whose save or copy raised.
StorageFailureHaltsRun ==
  \A k \in ThreadIds : threads[k].exc => Len(threads) = k

\* C16: the loss carried by the SaveTask fit submits for an epoch is the
\* normalized eval loss validate returned for that epoch.
SubmittedLossIsEvalLoss ==
  pc \in {"mt_cmp", "mt_set"} => threads[Len(threads)].loss = eval_loss

\* C17: within one run of fit with save interval N, a SaveTask is submitted
\* in in-run epoch index i exactly when i mod N = 0: the tasks submitted so
\* far are one for each such index passed, the k-th for index (k - 1) * N, and
\* a submission comes only after the evaluation of its epoch.
SubmissionEveryN ==
  LET N == opt.SAVE_EVERY
      in_mt_save == pc \in {"mt_cmp", "mt_set"}
      passed == {i \in 0..(epoch - 1) : i % N = 0}
  IN  pc \in {"train", "checkpoint", "mt_cmp", "mt_set", "finished"} =>
        /\ Len(threads) = Cardinality(passed) + (IF in_mt_save THEN 1 ELSE 0)
        /\ \A k \in ThreadIds : threads[k].epoch = pre_epoch + (k - 1) * N + 1
        /\ in_mt_save =>
             /\ epoch % N = 0
             /\ batch = NUM_BATCHES
             /\ eval_loss > 0

\* C17 witness: a run with interval 2 has finished two epochs with a task
\* for the first and none for the second.
SubmissionEveryNWitness ==
  /\ pc = "finished"
  /\ opt.SAVE_EVERY = 2
  /\ epoch = 2
  /\ Len(threads) = 1
  /\ threads[1].epoch = pre_epoch + 1

\* MyThread k has been started, line 143.
Started(k) == k <= Len(threads)

\* MyThread k has returned from run and does not hold the lock.
Ended(k) == IF k <= Len(threads) THEN threads[k].pc = "done" /\ lock # k
            ELSE FALSE

CheckpointPhase == {"checkpoint", "mt_cmp", "mt_set"}

\* The main thread has no step: it waits in join() for the previous thread.
WaitsInJoin ==
  /\ pc = "checkpoint"
  /\ SaveDue
  /\ IF Len(threads) > 0 THEN Alive(Len(threads)) ELSE FALSE

\* C19: fit always reaches Finished, after exactly NUM_EPOCHS epochs; in every
\* epoch the training batches come first, then one evaluation, then the
\* conditional Checkpoint-phase, after which the next epoch starts; the main
\* thread has no step only while it joins the previous SaveTask in mt_save.
FitStateMachine ==
  /\ <>(pc = "finished")
  /\ [](pc = "finished" =>
          epoch = NUM_EPOCHS /\ reported = pre_epoch + NUM_EPOCHS)
  /\ []((pc # "finished" /\ ~ENABLED MainNext) => WaitsInJoin)
  /\ [][/\ (pc = "train" /\ batch' # batch) =>
              /\ batch < NUM_BATCHES /\ batch' = batch + 1
              /\ pc' = "train" /\ epoch' = epoch
        /\ (pc = "train" /\ pc' # "train") =>
              /\ batch = NUM_BATCHES /\ eval_loss = 0
              /\ pc' = "checkpoint" /\ eval_loss' > 0 /\ epoch' = epoch
        /\ (pc \in CheckpointPhase /\ pc' # pc) =>
              \/ /\ pc = "checkpoint" /\ pc' = "mt_cmp"
                 /\ epoch' = epoch /\ eval_loss' = eval_loss
              \/ /\ pc = "mt_cmp" /\ pc' = "mt_set"
                 /\ epoch' = epoch /\ eval_loss' = eval_loss
              \/ /\ epoch' = epoch + 1 /\ batch' = 0 /\ eval_loss' = 0
                 /\ pc' = IF epoch' = NUM_EPOCHS THEN "finished" ELSE "train"
        /\ epoch' # epoch => pc \in CheckpointPhase
        /\ pc = "finished" => pc' = "finished"]_vars

\* C19 witness: fit has finished its NUM_EPOCHS epochs, the last one reported
\* and SaveTasks submitted on the way.
FitStateMachineWitness ==
  /\ pc = "finished"
  /\ epoch = NUM_EPOCHS
  /\ reported = pre_epoch + NUM_EPOCHS
  /\ Len(threads) >= 1
  /\ \A k \in ThreadIds : ~Alive(k)

====
